---- MODULE Spec2Model ----
(***************************************************************************)
(* A model of the Jira MCP server of src/main.go: the construction of the  *)
(* Jira client from the environment, the four tool handlers, the shared    *)
(* doJSON round trip and the net/http client it is run on                  *)
(* (http.Client{Timeout: 30s} with the default redirect policy).           *)
(*                                                                         *)
(* Text is modelled as a sequence of tokens (TLA+ strings): a character,   *)
(* or a literal of the source kept whole ("/rest/api/3/issue/").           *)
(***************************************************************************)
EXTENDS Integers, Sequences, FiniteSets, TLC

VARIABLES env,        \* the process environment: JIRA_INSTANCE_URL, _USER_EMAIL, _API_TOKEN
          server,     \* where main is: "init", "fatal", "serving", "exited"
          jc,         \* the *JiraClient main holds (NoClient before construction)
          inv,        \* the tool invocations the framework has in progress, by slot
          hasFailed,  \* history: some invocation has already returned an error
          pair        \* two runs side by side (used only by SpecPair)

vars == <<env, server, jc, inv, hasFailed, pair>>

----------------------------------------------------------------------------
(* Bounds of the model and constants of the program.                       *)

\* longest JIRA_INSTANCE_URL tried, in tokens
MaxUrlLen == 5
\* most redirects the remote service answers one invocation with
MaxFollow == 1
\* how far below 1 and above the page-size limit max_results is tried
PageProbe == 1

\* Search: "if max <= 0 || max > 1000"
MaxPageSize == 1000
\* Search: "max = 50"
DefaultPageSize == 50
\* doJSON: "if resp.StatusCode >= 300"
ErrorStatus == 300
\* http.Client with a nil CheckRedirect stops after 10 consecutive requests
DefaultMaxRedirects == 10

Slots == {1, 2}

----------------------------------------------------------------------------
(* Strings.                                                                *)

RECURSIVE TrimRightSlash(_)
\* strings.TrimRight(s, "/")
TrimRightSlash(s) ==
    IF s # <<>> /\ s[Len(s)] = "/" THEN TrimRightSlash(SubSeq(s, 1, Len(s) - 1))
    ELSE s

HasPrefix(s, p) == Len(s) >= Len(p) /\ SubSeq(s, 1, Len(p)) = p

\* the first index of s at or after `from` holding token t, 0 when there is none
IndexFrom(s, t, from) ==
    LET hits == {i \in from..Len(s) : s[i] = t}
    IN IF hits = {} THEN 0 ELSE CHOOSE i \in hits : \A j \in hits : i <= j

LastIndex(s, t) ==
    LET hits == {i \in 1..Len(s) : s[i] = t}
    IN IF hits = {} THEN 0 ELSE CHOOSE i \in hits : \A j \in hits : i >= j

\* s occurs in t as a contiguous run of tokens (strings.Contains)
Contains(t, s) ==
    \E i \in 0..(Len(t) - Len(s)) : SubSeq(t, i + 1, i + Len(s)) = s

Digit(d) == CASE d = 0 -> "0" [] d = 1 -> "1" [] d = 2 -> "2" [] d = 3 -> "3"
              [] d = 4 -> "4" [] d = 5 -> "5" [] d = 6 -> "6" [] d = 7 -> "7"
              [] d = 8 -> "8" [] d = 9 -> "9"

RECURSIVE Itoa(_)
\* fmt.Sprintf("%d", n)
Itoa(n) ==
    IF n < 0 THEN <<"-">> \o Itoa(0 - n)
    ELSE IF n < 10 THEN <<Digit(n)>>
    ELSE Itoa(n \div 10) \o <<Digit(n % 10)>>

----------------------------------------------------------------------------
(* net/url, on the tokens a base URL is made of here: the letters "http"   *)
(* and "x", ":" and "/".  No token is a digit, "?", "#", "%" or "@", so    *)
(* the branches of url.parse for those never apply.                        *)

UrlAlphabet == {"http", "x", ":", "/"}

IsLetter(c) == c \in {"http", "x"}

UrlStrings == UNION {[1..n -> UrlAlphabet] : n \in 0..MaxUrlLen}

\* url.getScheme: the letters before the first ":", if nothing else comes first
getScheme(raw) ==
    LET stops == {i \in 1..Len(raw) : ~IsLetter(raw[i])}
        i == IF stops = {} THEN 0 ELSE CHOOSE k \in stops : \A j \in stops : k <= j
    IN IF i = 0 \/ raw[i] # ":"
       THEN [err |-> "", scheme |-> <<>>, rest |-> raw]
       ELSE IF i = 1
       THEN [err |-> "missing protocol scheme", scheme |-> <<>>, rest |-> <<>>]
       ELSE [err |-> "", scheme |-> SubSeq(raw, 1, i - 1),
             rest |-> SubSeq(raw, i + 1, Len(raw))]

\* url.parseHost: what follows the last ":" of the host must be a port number
\* (validOptionalPort); no token is a digit, so it must be empty
validHost(host) ==
    LET c == LastIndex(host, ":") IN c = 0 \/ c = Len(host)

ParsedURL(err, scheme, host, opaque) ==
    [err |-> err, scheme |-> scheme, host |-> host, opaque |-> opaque]

\* url.parse(rawURL, viaRequest)
parse(raw, viaRequest) ==
    LET s == getScheme(raw)
        rest == s.rest
        slash == IndexFrom(rest, "/", 3)
        authority == IF slash = 0 THEN SubSeq(rest, 3, Len(rest))
                     ELSE SubSeq(rest, 3, slash - 1)
        firstSlash == IndexFrom(rest, "/", 1)
        firstColon == IndexFrom(rest, ":", 1)
    IN IF raw = <<>> /\ viaRequest THEN ParsedURL("empty url", <<>>, <<>>, FALSE)
       ELSE IF s.err # "" THEN ParsedURL(s.err, <<>>, <<>>, FALSE)
       ELSE IF ~HasPrefix(rest, <<"/">>)
       THEN IF s.scheme # <<>> THEN ParsedURL("", s.scheme, <<>>, TRUE)
            ELSE IF viaRequest THEN ParsedURL("invalid URI for request", <<>>, <<>>, FALSE)
            ELSE IF firstColon # 0 /\ (firstSlash = 0 \/ firstColon < firstSlash)
            THEN ParsedURL("first path segment in URL cannot contain colon",
                           <<>>, <<>>, FALSE)
            ELSE ParsedURL("", <<>>, <<>>, FALSE)
       ELSE IF (s.scheme # <<>> \/ (~viaRequest /\ ~HasPrefix(rest, <<"/", "/", "/">>)))
               /\ HasPrefix(rest, <<"/", "/">>)
       THEN IF validHost(authority) THEN ParsedURL("", s.scheme, authority, FALSE)
            ELSE ParsedURL("invalid port after host", <<>>, <<>>, FALSE)
       ELSE ParsedURL("", s.scheme, <<>>, FALSE)

\* url.ParseRequestURI
ParseRequestURI(raw) == parse(raw, TRUE)

----------------------------------------------------------------------------
(* The Jira client.                                                        *)

\* base64.StdEncoding.EncodeToString: an encoding of its argument, kept symbolic
Base64(s) == <<"base64(">> \o s \o <<")">>

\* no Authorization header
NoAuth == <<>>

\* "Basic " + base64(email + ":" + token)
BasicAuth(email, token) == <<"Basic ">> \o Base64(<<email, ":", token>>)

NoClient == [BaseURL |-> <<>>, Auth |-> NoAuth]

\* NewJiraClientFromEnv
NewJiraClientFromEnv(e) ==
    LET baseURL == TrimRightSlash(e.url)
        u == ParseRequestURI(baseURL)
    IN IF baseURL = <<>> \/ e.email = "" \/ e.token = ""
       THEN [err |-> "JIRA_INSTANCE_URL, JIRA_USER_EMAIL, JIRA_API_TOKEN must be set",
             client |-> NoClient]
       ELSE IF u.err # ""
       THEN [err |-> "invalid JIRA_INSTANCE_URL", client |-> NoClient]
       ELSE [err |-> "",
             client |-> [BaseURL |-> baseURL, Auth |-> BasicAuth(e.email, e.token)]]

----------------------------------------------------------------------------
(* The tool arguments the framework hands to the handlers.                 *)

Tools == {"get_issue", "search_issues", "add_comment", "create_issue"}

Call(tool, key, jql, max, text, fields) ==
    [tool |-> tool, key |-> key, jql |-> jql, max |-> max, text |-> text,
     fields |-> fields]

NoFields == [project |-> "", issueType |-> "", summary |-> "", description |-> ""]

NoCall == Call("none", <<>>, <<>>, 0, "", NoFields)

\* an ordinary key, and one with a character url.PathEscape rewrites
Keys == {<<"P", "-", "1">>, <<"a", "/", "b">>}

Jql == <<"k", " ", "=", "v">>

\* max_results: an omitted one (0), the two ends of the accepted range, and one
\* below and one above it
PageSizes == {0 - PageProbe, 0, 1, MaxPageSize, MaxPageSize + PageProbe}

GetCalls == {Call("get_issue", k, <<>>, 0, "", NoFields) : k \in Keys}

SearchCalls == {Call("search_issues", <<>>, Jql, n, "", NoFields) : n \in PageSizes}

CommentCalls == {Call("add_comment", <<"a", "/", "b">>, <<>>, 0, "hello", NoFields)}

CreateCalls ==
    {Call("create_issue", <<>>, <<>>, 0, "",
          [project |-> "P", issueType |-> "Bug", summary |-> "s", description |-> d])
       : d \in {""}}

Calls == GetCalls \cup SearchCalls \cup CommentCalls \cup CreateCalls

----------------------------------------------------------------------------
(* What the remote service answers.                                        *)

Body(kind, raw, id, key, total) ==
    [kind |-> kind, raw |-> raw, id |-> id, key |-> key, total |-> total]

\* no body at all
BodyEmpty == Body("empty", "", "", "", 0)
\* a body that is not JSON
BodyText == Body("text", "<html>oops</html>", "", "", 0)
\* a JSON object with id, key and total, and a member no struct has
BodyObject == Body("object", "{id:10001,key:P-1,total:1,x:0}", "10001", "P-1", 1)

Bodies == {BodyEmpty, BodyText, BodyObject}

RedirectStatuses == {301, 302, 303, 307, 308}

Statuses == {200, 300, 302, 404}

\* resp.Status
StatusText(status) ==
    CASE status = 200 -> "200 OK"
      [] status = 300 -> "300 Multiple Choices"
      [] status = 302 -> "302 Found"
      [] status = 404 -> "404 Not Found"
      [] OTHER -> "000"

\* location: the Location header, "" (none), "same" (the host of the base URL)
\* or "other" (another host)
Response(status, body, location) ==
    [status |-> status, body |-> body, location |-> location]

NoResponse == Response(0, BodyEmpty, "")

Responses ==
    {Response(s, b, "") : s \in Statuses, b \in Bodies}
        \cup {Response(s, BodyEmpty, l) : s \in Statuses \cap RedirectStatuses,
                                          l \in {"same", "other"}}

----------------------------------------------------------------------------
(* Requests.                                                               *)

\* payload: the members of the JSON body, as <<member path, value>> pairs
Request(method, url, sameHost, auth, accept, contentType, hasBody, payload) ==
    [method |-> method, url |-> url, sameHost |-> sameHost, auth |-> auth,
     accept |-> accept, contentType |-> contentType, hasBody |-> hasBody,
     payload |-> payload]

NoRequest == Request("", <<>>, TRUE, NoAuth, "", "", FALSE, {})

\* url.PathEscape, per character
PathEscapeChar(c) ==
    CASE c = "/" -> "%2F" [] c = " " -> "%20" [] c = "?" -> "%3F" [] OTHER -> c

\* url.QueryEscape, per character
QueryEscapeChar(c) ==
    CASE c = " " -> "+" [] c = "=" -> "%3D" [] c = "/" -> "%2F" [] c = "&" -> "%26"
      [] OTHER -> c

RECURSIVE PathEscape(_)
PathEscape(s) ==
    IF s = <<>> THEN <<>> ELSE <<PathEscapeChar(Head(s))>> \o PathEscape(Tail(s))

RECURSIVE QueryEscape(_)
QueryEscape(s) ==
    IF s = <<>> THEN <<>> ELSE <<QueryEscapeChar(Head(s))>> \o QueryEscape(Tail(s))

\* Search with "max < 0" for "max <= 0": an omitted max_results is sent as 0
ClampMax_zero(max) == IF max < 0 \/ max > MaxPageSize THEN DefaultPageSize ELSE max

\* Search: the page size sent
ClampMax(max) == IF max <= 0 \/ max > MaxPageSize THEN DefaultPageSize ELSE max

\* what a client method hands to doJSON: method, path, body (nil: hasBody FALSE),
\* out (nil: hasOut FALSE)
DoJSONArgs(method, path, hasBody, payload, hasOut, outType) ==
    [method |-> method, path |-> path, hasBody |-> hasBody, payload |-> payload,
     hasOut |-> hasOut, outType |-> outType]

\* JiraClient.GetIssue
GetIssue(key) ==
    DoJSONArgs("GET", <<"/rest/api/3/issue/">> \o PathEscape(key), FALSE, {},
               TRUE, "issue")

\* JiraClient.Search; url.Values.Encode writes the keys in sorted order
Search(jql, max) ==
    DoJSONArgs("GET",
               <<"/rest/api/3/search?", "jql=">> \o QueryEscape(jql)
                   \o <<"&maxResults=">> \o Itoa(ClampMax(max)),
               FALSE, {}, TRUE, "search")

\* AddComment passing an out, like the other three methods
AddCommentHasOut_always == TRUE

\* whether AddComment passes an out to decode the response into
AddCommentHasOut == FALSE

\* JiraClient.AddComment
AddComment(key, body) ==
    DoJSONArgs("POST", <<"/rest/api/3/issue/">> \o PathEscape(key) \o <<"/comment">>,
               TRUE, {<<"body", body>>}, AddCommentHasOut, "issue")

\* JiraClient.CreateIssue
CreateIssue(f) ==
    DoJSONArgs("POST", <<"/rest/api/3/issue">>, TRUE,
               {<<"fields.project.key", f.project>>, <<"fields.summary", f.summary>>,
                <<"fields.description", f.description>>,
                <<"fields.issuetype.name", f.issueType>>},
               TRUE, "issue")

\* the client method each handler calls with its arguments
ClientCall(call) ==
    CASE call.tool = "get_issue" -> GetIssue(call.key)
      [] call.tool = "search_issues" -> Search(call.jql, call.max)
      [] call.tool = "add_comment" -> AddComment(call.key, call.text)
      [] OTHER -> CreateIssue(call.fields)

----------------------------------------------------------------------------
(* doJSON and the handlers.                                                *)

Value(type, id, key, total) == [type |-> type, id |-> id, key |-> key, total |-> total]

NoValue == Value("none", "", "", 0)

\* what doJSON returns: an error (errKind "" is nil) and what it decoded into out
DoJSONResult(errKind, errText, value) ==
    [errKind |-> errKind, errText |-> errText, value |-> value]

\* what a handler returns to the framework: kind "error" (nil result and the error),
\* "structured" (StructuredContent) or "text" (a text content)
Out(kind, errKind, errText, value, text) ==
    [kind |-> kind, errKind |-> errKind, errText |-> errText, value |-> value,
     text |-> text]

NoOut == Out("none", "", <<>>, NoValue, "")

\* json.NewDecoder(resp.Body).Decode(out), out a *JiraIssue or a *JiraSearchResult:
\* the members the struct names are kept, any other member is dropped
Decode(body, outType) ==
    CASE body.kind = "empty" -> DoJSONResult("decode", <<"EOF">>, NoValue)
      [] body.kind = "text" ->
            DoJSONResult("decode",
                         <<"invalid character '<' looking for beginning of value">>,
                         NoValue)
      [] OTHER ->
            DoJSONResult("", <<>>,
                         IF outType = "issue" THEN Value("issue", body.id, body.key, 0)
                         ELSE Value("search", "", "", body.total))

\* doJSON with "resp.StatusCode >= 400": a 3xx is decoded like a success
RemoteFailure_400(status) == status >= 400

\* doJSON: "if resp.StatusCode >= 300"
RemoteFailure(status) == status >= ErrorStatus

\* doJSON: fmt.Errorf("jira %s %s failed: %s - %s", method, path, resp.Status, string(b))
RemoteError(method, path, resp) ==
    <<"jira ", method, " ">> \o path
        \o <<" failed: ", StatusText(resp.status), " - ", resp.body.raw>>

\* doJSON keeping the first error on the client and returning it ever after
doJSONReturn_sticky(c, a, resp) ==
    IF hasFailed \/ RemoteFailure(resp.status)
    THEN DoJSONResult("remote", RemoteError(a.method, a.path, resp), NoValue)
    ELSE IF a.hasOut THEN Decode(resp.body, a.outType)
    ELSE DoJSONResult("", <<>>, NoValue)

\* doJSON reading the response from a field of the shared client, which the
\* invocation of slot 1 has written last
doJSONReturn_shared(c, a, resp) ==
    LET r == IF inv[1].phase = "done" /\ inv[1].resp.status # 0 THEN inv[1].resp
             ELSE resp
    IN IF RemoteFailure(r.status)
       THEN DoJSONResult("remote", RemoteError(a.method, a.path, r), NoValue)
       ELSE IF a.hasOut THEN Decode(r.body, a.outType)
       ELSE DoJSONResult("", <<>>, NoValue)

\* doJSON adding the request's headers to the remote error
doJSONReturn_leak(c, a, resp) ==
    IF RemoteFailure(resp.status)
    THEN DoJSONResult("remote",
                      RemoteError(a.method, a.path, resp) \o <<" Authorization: ">>
                          \o c.Auth, NoValue)
    ELSE IF a.hasOut THEN Decode(resp.body, a.outType)
    ELSE DoJSONResult("", <<>>, NoValue)

\* doJSON of client c, from the response c.Client.Do returned to its return
doJSONReturn(c, a, resp) ==
    IF RemoteFailure(resp.status)
    THEN DoJSONResult("remote", RemoteError(a.method, a.path, resp), NoValue)
    ELSE IF a.hasOut THEN Decode(resp.body, a.outType)
    ELSE DoJSONResult("", <<>>, NoValue)

\* the four handlers, from the client method's return to their own
HandlerReturn(call, r) ==
    IF r.errKind # "" THEN Out("error", r.errKind, r.errText, NoValue, "")
    ELSE IF call.tool = "add_comment" THEN Out("text", "", <<>>, NoValue, "ok")
    ELSE Out("structured", "", <<>>, r.value, "")

----------------------------------------------------------------------------
(* c.Client.Do: one request, the redirects the default policy follows,     *)
(* and the errors of the transport.                                        *)

\* the causes of the errors Do returns for a request on the wire
DialCause == "dial tcp: connection refused"

TimeoutCause == "context deadline exceeded (Client.Timeout exceeded while awaiting headers)"

CancelCause == "context canceled"

\* url.Error.Op
Op(method) == IF method = "GET" THEN "Get" ELSE "Post"

\* url.Error: Op "URL": cause
UrlError(req, cause) == <<Op(req.method), " \"">> \o req.url \o <<"\": ", cause>>

\* an invocation in its slot.  req: the request on the wire; nsent: the requests
\* sent so far; stripped: the sensitive headers were dropped by a redirect to another
\* host; cancelled: the invocation's context is cancelled; resp: the response Do
\* returned; out: what the handler returned
Rec(phase, call, req, nsent, stripped, cancelled, resp, out) ==
    [phase |-> phase, call |-> call, req |-> req, nsent |-> nsent,
     stripped |-> stripped, cancelled |-> cancelled, resp |-> resp, out |-> out]

IdleRec == Rec("idle", NoCall, NoRequest, 0, FALSE, FALSE, NoResponse, NoOut)

\* the handler returns: doJSON's result r goes back through the client method
Done(rec, resp, r) ==
    [rec EXCEPT !.phase = "done", !.req = NoRequest, !.stripped = FALSE,
                !.cancelled = FALSE, !.resp = resp,
                !.out = HandlerReturn(rec.call, r)]

\* http.NewRequestWithContext(ctx, method, c.BaseURL+path, r) and the three headers
FirstRequest(c, a) ==
    Request(a.method, c.BaseURL \o a.path, TRUE, c.Auth, "application/json",
            IF a.hasBody THEN "application/json" ELSE "", a.hasBody, a.payload)

\* the URL of c.BaseURL+path as url.Parse reads it; every path begins with "/"
RequestURL(c) == parse(c.BaseURL \o <<"/">>, FALSE)

\* a handler is invoked with `call`: up to the request being on the wire
Start(c, call) ==
    LET a == ClientCall(call)
        u == RequestURL(c)
        req == FirstRequest(c, a)
        rec == Rec("inflight", call, req, 0, FALSE, FALSE, NoResponse, NoOut)
    IN IF u.err # ""
       THEN Done(rec, NoResponse, DoJSONResult("request", <<"parse ", u.err>>, NoValue))
       ELSE IF u.scheme # <<"http">>
       THEN Done(rec, NoResponse,
                 DoJSONResult("transport", UrlError(req, "unsupported protocol scheme"),
                              NoValue))
       ELSE IF u.host = <<>>
       THEN Done(rec, NoResponse,
                 DoJSONResult("transport", UrlError(req, "http: no Host in request URL"),
                              NoValue))
       ELSE [rec EXCEPT !.nsent = 1]

\* the Location of a redirect
LocationURL(c, location) ==
    IF location = "same"
    THEN LET u == RequestURL(c)
         IN u.scheme \o <<":", "/", "/">> \o u.host \o <<"/moved">>
    ELSE <<"http", ":", "/", "/", "other", "/moved">>

\* net/http redirectBehavior: a 301, 302, 303, 307 or 308 with a Location is followed
ShouldRedirect(resp) == resp.status \in RedirectStatuses /\ resp.location # ""

\* the request http.Client sends after a redirect: 301, 302 and 303 turn a POST
\* into a GET without its body, 307 and 308 repeat method and body; the headers of
\* the first request are copied, but Authorization not once a redirect left the host
Redirect(c, rec, resp) ==
    LET first == FirstRequest(c, ClientCall(rec.call))
        includeBody == resp.status \in {307, 308}
        method == IF resp.status \in {301, 302, 303} /\ rec.req.method \notin {"GET", "HEAD"}
                  THEN "GET" ELSE rec.req.method
        stripped == rec.stripped \/ resp.location = "other"
    IN Request(method, LocationURL(c, resp.location), resp.location = "same",
               IF stripped THEN NoAuth ELSE first.auth, first.accept,
               first.contentType, includeBody /\ first.hasBody,
               IF includeBody THEN first.payload ELSE {})

\* a response arrives for the request on the wire; a redirect is not followed once
\* the context is cancelled (Transport.roundTrip looks at ctx.Done() first)
Deliver(c, rec, resp) ==
    IF ShouldRedirect(resp)
    THEN IF rec.cancelled
         THEN Done(rec, NoResponse,
                   DoJSONResult("cancel",
                                UrlError(Redirect(c, rec, resp), CancelCause),
                                NoValue))
         ELSE IF rec.nsent >= DefaultMaxRedirects
         THEN Done(rec, NoResponse,
                   DoJSONResult("transport",
                                UrlError(rec.req, "stopped after 10 redirects"), NoValue))
         ELSE [rec EXCEPT !.req = Redirect(c, rec, resp), !.nsent = @ + 1,
                          !.stripped = @ \/ resp.location = "other"]
    ELSE Done(rec, resp, doJSONReturn(c, ClientCall(rec.call), resp))

\* Do returns an error instead of a response
Fail(rec, errKind, cause) ==
    Done(rec, NoResponse, DoJSONResult(errKind, UrlError(rec.req, cause), NoValue))

----------------------------------------------------------------------------
(* main, the framework and the remote service.                             *)

\* a usable configuration
BaseEnv == [url |-> <<"http", ":", "/", "/", "x">>, email |-> "e1", token |-> "t1"]

\* every configuration up to MaxUrlLen tokens of base URL, set or unset credentials
AllEnvs == [url : UrlStrings, email : {"", "e1"}, token : {"", "t1"}]

NoPair == [a |-> IdleRec, b |-> IdleRec, ca |-> NoClient, cb |-> NoClient]

InitWith(envs) ==
    /\ env \in envs
    /\ server = "init"
    /\ jc = NoClient
    /\ inv = [i \in Slots |-> IdleRec]
    /\ hasFailed = FALSE
    /\ pair = NoPair

Init == InitWith({BaseEnv})

\* main up to server.Run: the client is built, or log.Fatalf ends the process before
\* any tool is registered
Startup ==
    /\ server = "init"
    /\ LET r == NewJiraClientFromEnv(env)
       IN IF r.err # "" THEN server' = "fatal" /\ jc' = jc
          ELSE server' = "serving" /\ jc' = r.client
    /\ UNCHANGED <<env, inv, hasFailed, pair>>

\* slot i becomes rec; a handler that returned an error is remembered
Update(i, rec) ==
    /\ inv' = [inv EXCEPT ![i] = rec]
    /\ hasFailed' = (hasFailed \/ (rec.phase = "done" /\ rec.out.kind = "error"))
    /\ UNCHANGED <<env, server, jc, pair>>

\* the framework invokes a tool handler
Invoke(i, call) ==
    /\ server = "serving"
    /\ inv[i].phase = "idle"
    /\ Update(i, Start(jc, call))

\* the remote service answers the request on the wire
Respond(i, resp) ==
    /\ server = "serving"
    /\ inv[i].phase = "inflight"
    /\ ShouldRedirect(resp) => inv[i].nsent <= MaxFollow
    /\ Update(i, Deliver(jc, inv[i], resp))

\* the transport fails (DNS, connection)
TransportError(i) ==
    /\ server = "serving"
    /\ inv[i].phase = "inflight"
    /\ Update(i, Fail(inv[i], "transport", DialCause))

\* http.Client{} without a Timeout: no timer ever fires
Timeout_never(i) == FALSE /\ UNCHANGED vars

\* http.Client{Timeout: 30 * time.Second}: the timer of the request fires
Timeout(i) ==
    /\ server = "serving"
    /\ inv[i].phase = "inflight"
    /\ Update(i, Fail(inv[i], "timeout", TimeoutCause))

\* the caller cancels the context of the invocation
Cancel(i) ==
    /\ server = "serving"
    /\ inv[i].phase = "inflight"
    /\ ~inv[i].cancelled
    /\ Update(i, [inv[i] EXCEPT !.cancelled = TRUE])

\* the transport sees the cancelled context and gives the request up
AbortCancelled(i) ==
    /\ server = "serving"
    /\ inv[i].phase = "inflight"
    /\ inv[i].cancelled
    /\ Update(i, Fail(inv[i], "cancel", CancelCause))

\* the framework has taken the handler's return
Return(i) ==
    /\ server = "serving"
    /\ inv[i].phase = "done"
    /\ Update(i, IdleRec)

\* server.Run returns (the stdio transport closed or failed): the process ends
ServerExit ==
    /\ server = "serving"
    /\ server' = "exited"
    /\ inv' = [i \in Slots |-> IdleRec]
    /\ UNCHANGED <<env, jc, hasFailed, pair>>

Next ==
    \/ Startup
    \/ \E i \in Slots, call \in Calls : Invoke(i, call)
    \/ \E i \in Slots, resp \in Responses : Respond(i, resp)
    \/ \E i \in Slots : TransportError(i)
    \/ \E i \in Slots : Timeout(i)
    \/ \E i \in Slots : Cancel(i)
    \/ \E i \in Slots : AbortCancelled(i)
    \/ \E i \in Slots : Return(i)
    \/ ServerExit

Spec == Init /\ [][Next]_vars

----------------------------------------------------------------------------
(* The specifications of the other claims: the same actions on other       *)
(* inputs, under fairness, and two runs side by side.                      *)

\* every configuration, one slot, a few calls and answers
StartupCalls == GetCalls

StartupResponses == {Response(200, BodyObject, ""), Response(302, BodyEmpty, "same")}

NextStartup ==
    \/ Startup
    \/ \E call \in StartupCalls : Invoke(1, call)
    \/ \E resp \in StartupResponses : Respond(1, resp)
    \/ TransportError(1)
    \/ Timeout(1)
    \/ Cancel(1)
    \/ AbortCancelled(1)
    \/ Return(1)
    \/ ServerExit

SpecStartup == InitWith(AllEnvs) /\ [][NextStartup]_vars

\* the timer of http.Client.Timeout fires if the request is still on the wire, and
\* the transport acts on a cancelled context; nothing makes the remote service answer
Fairness ==
    \A i \in Slots : WF_vars(Timeout(i)) /\ WF_vars(AbortCancelled(i))

\* the invocations and answers of the liveness check: a tool with an out and the one
\* without, a success, a failure and a redirect
LiveCalls ==
    {Call("get_issue", <<"P", "-", "1">>, <<>>, 0, "", NoFields)} \cup CommentCalls

LiveResponses ==
    {Response(200, BodyObject, ""), Response(404, BodyText, ""),
     Response(302, BodyEmpty, "same")}

NextLive ==
    \/ Startup
    \/ \E i \in Slots, call \in LiveCalls : Invoke(i, call)
    \/ \E i \in Slots, resp \in LiveResponses : Respond(i, resp)
    \/ \E i \in Slots : TransportError(i)
    \/ \E i \in Slots : Timeout(i)
    \/ \E i \in Slots : Cancel(i)
    \/ \E i \in Slots : AbortCancelled(i)
    \/ \E i \in Slots : Return(i)
    \/ ServerExit

SpecLive == Init /\ [][NextLive]_vars /\ Fairness

\* two processes that differ in JIRA_USER_EMAIL and JIRA_API_TOKEN only, given the
\* same invocations and the same answers
PairCredentials == {<<"e1", "t1">>, <<"e2", "t1">>, <<"e1", "t2">>}

ClientOf(cred) ==
    NewJiraClientFromEnv([url |-> BaseEnv.url, email |-> cred[1], token |-> cred[2]]).client

InitPair ==
    /\ env = BaseEnv
    /\ server = "init"
    /\ jc = NoClient
    /\ inv = [i \in Slots |-> IdleRec]
    /\ hasFailed = FALSE
    /\ \E x \in PairCredentials, y \in PairCredentials :
          /\ x # y
          /\ pair = [a |-> IdleRec, b |-> IdleRec, ca |-> ClientOf(x), cb |-> ClientOf(y)]

PairUpdate(reca, recb) ==
    /\ pair' = [pair EXCEPT !.a = reca, !.b = recb]
    /\ UNCHANGED <<env, server, jc, inv, hasFailed>>

PairInvoke(call) ==
    /\ pair.a.phase = "idle"
    /\ PairUpdate(Start(pair.ca, call), Start(pair.cb, call))

PairRespond(resp) ==
    /\ pair.a.phase = "inflight"
    /\ ShouldRedirect(resp) => pair.a.nsent <= MaxFollow
    /\ PairUpdate(Deliver(pair.ca, pair.a, resp), Deliver(pair.cb, pair.b, resp))

PairTransportError ==
    /\ pair.a.phase = "inflight"
    /\ PairUpdate(Fail(pair.a, "transport", DialCause),
                  Fail(pair.b, "transport", DialCause))

PairTimeout ==
    /\ pair.a.phase = "inflight"
    /\ PairUpdate(Fail(pair.a, "timeout", TimeoutCause),
                  Fail(pair.b, "timeout", TimeoutCause))

PairCancel ==
    /\ pair.a.phase = "inflight"
    /\ ~pair.a.cancelled
    /\ PairUpdate([pair.a EXCEPT !.cancelled = TRUE], [pair.b EXCEPT !.cancelled = TRUE])

PairAbortCancelled ==
    /\ pair.a.phase = "inflight"
    /\ pair.a.cancelled
    /\ PairUpdate(Fail(pair.a, "cancel", CancelCause),
                  Fail(pair.b, "cancel", CancelCause))

PairReturn ==
    /\ pair.a.phase = "done"
    /\ PairUpdate(IdleRec, IdleRec)

NextPair ==
    \/ \E call \in Calls : PairInvoke(call)
    \/ \E resp \in Responses : PairRespond(resp)
    \/ PairTransportError
    \/ PairTimeout
    \/ PairCancel
    \/ PairAbortCancelled
    \/ PairReturn

SpecPair == InitPair /\ [][NextPair]_vars

----------------------------------------------------------------------------
(* The claims.                                                             *)

DigitValue(c) == CHOOSE d \in 0..9 : Digit(d) = c

RECURSIVE Atoi(_)
\* the number a run of decimal digits writes
Atoi(ds) ==
    IF ds = <<>> THEN 0
    ELSE 10 * Atoi(SubSeq(ds, 1, Len(ds) - 1)) + DigitValue(ds[Len(ds)])

\* the value of the maxResults parameter of a search URL: what follows "&maxResults="
MaxResultsParam(url) ==
    SubSeq(url, IndexFrom(url, "&maxResults=", 1) + 1, Len(url))

Answered(rec) == rec.phase = "done" /\ rec.resp.status # 0

\* the first request of an invocation is on the wire
FirstOnWire(rec) == rec.phase = "inflight" /\ rec.nsent = 1

\* RFC 3986: an absolute URI begins with a scheme, letters up to a ":"
IsAbsoluteURI(u) ==
    \E k \in 2..Len(u) : u[k] = ":" /\ \A j \in 1..(k - 1) : IsLetter(u[j])

BadConfig(e) ==
    \/ TrimRightSlash(e.url) = <<>>
    \/ e.email = ""
    \/ e.token = ""
    \/ ~IsAbsoluteURI(TrimRightSlash(e.url))

\* C1: with an empty base URL (after the trailing slashes are stripped), identity or
\* secret, or a base URL that is no absolute URI, the client is never built, main
\* never gets to serve and no invocation ever runs or sends a request.
C1_BadConfigNeverServes ==
    BadConfig(env) =>
        /\ server \in {"init", "fatal"}
        /\ jc = NoClient
        /\ \A i \in Slots : inv[i] = IdleRec

\* C2: the first request of search_issues carries maxResults=50 when max_results is
\* <= 0 or > 1000 and max_results itself when it is in 1..1000, and no search fails
\* before its request is sent.
C2_MaxResultsNormalised ==
    \A i \in Slots :
        inv[i].call.tool = "search_issues" =>
            /\ FirstOnWire(inv[i]) =>
                  LET m == inv[i].call.max
                      sent == MaxResultsParam(inv[i].req.url)
                  IN /\ (m <= 0 \/ m > 1000) => sent = <<"5", "0">>
                     /\ (1 <= m /\ m <= 1000) => (Atoi(sent) = m /\ sent = Itoa(m))
            /\ inv[i].phase = "done" => inv[i].nsent >= 1 /\ inv[i].out.errKind # "request"

\* C2 witness: a search with max_results above 1000 is on the wire with maxResults=50.
C2_Witness ==
    \E i \in Slots :
        /\ inv[i].call.tool = "search_issues"
        /\ inv[i].call.max > 1000
        /\ FirstOnWire(inv[i])
        /\ MaxResultsParam(inv[i].req.url) = <<"5", "0">>

C4_ExactlyOneRequest ==
    \A i \in Slots :
        /\ inv[i].phase \in {"inflight", "done"} => inv[i].nsent = 1
        /\ (inv[i].phase = "inflight" /\ inv[i].call.tool = "get_issue") =>
              /\ inv[i].req.method = "GET"
              /\ inv[i].req.url
                    = jc.BaseURL \o <<"/rest/api/3/issue/">> \o PathEscape(inv[i].call.key)

\* the result of an invocation run alone on its response: an error on a status
\* >= 300; else "ok" for add_comment, whatever the body; else the members of the
\* JSON object answered, and an error when the body is no JSON object
OwnResult(rec) ==
    IF rec.resp.status >= 300 THEN rec.out.kind = "error"
    ELSE IF rec.call.tool = "add_comment" THEN rec.out.kind = "text" /\ rec.out.text = "ok"
    ELSE IF rec.resp.body.kind # "object" THEN rec.out.kind = "error"
    ELSE /\ rec.out.kind = "structured"
         /\ rec.out.value
               = IF rec.call.tool = "search_issues"
                 THEN Value("search", "", "", rec.resp.body.total)
                 ELSE Value("issue", rec.resp.body.id, rec.resp.body.key, 0)

\* an invocation that returns in this step
Returns(i) == inv[i].phase = "inflight" /\ inv'[i].phase = "done"

\* C5: once main serves, no step changes the client; an invocation that ends
\* without a response, or on a status >= 300, returns an error to the framework, and
\* a handler's return leaves the server serving; and two invocations with the same
\* arguments and the same response return the same, whatever failed before either.
C5_FailureLeavesServerAndClient ==
    /\ [][server = "serving" => jc' = jc]_vars
    /\ [][\A i \in Slots :
             Returns(i) =>
                 /\ server' = "serving"
                 /\ (inv'[i].resp.status = 0 \/ inv'[i].resp.status >= 300)
                        => inv'[i].out.kind = "error"]_vars
    /\ [](\A i, j \in Slots :
             (/\ Answered(inv[i]) /\ Answered(inv[j])
              /\ inv[i].call = inv[j].call /\ inv[i].resp = inv[j].resp)
                 => inv[i].out = inv[j].out)

\* C5 witness: an invocation has failed, the server serves, and every slot holds an
\* invocation that succeeded: the slot of the failed one was taken again after it.
C5_Witness ==
    /\ hasFailed
    /\ server = "serving"
    /\ jc = NewJiraClientFromEnv(env).client
    /\ \A i \in Slots : Answered(inv[i]) /\ inv[i].out.kind # "error"

\* C6: an invocation that returns while others are in progress returns what its own
\* response gives, and its steps change neither another invocation nor the client.
C6_NoInterference ==
    /\ [][\A i \in Slots :
             (Returns(i) /\ inv'[i].resp.status # 0) => OwnResult(inv'[i])]_vars
    /\ [][\A i, j \in Slots :
             (i # j /\ inv'[i] # inv[i] /\ server' = "serving") => inv'[j] = inv[j]]_vars
    /\ [][server = "serving" => jc' = jc]_vars

\* C6 witness: two invocations of different tools have returned, one with the issue
\* of its response and one with the error of its own.
C6_Witness ==
    /\ Answered(inv[1]) /\ Answered(inv[2])
    /\ inv[1].call.tool = "get_issue" /\ inv[1].out.kind = "structured"
    /\ inv[1].out.value.key = inv[1].resp.body.key
    /\ inv[2].call.tool = "search_issues" /\ inv[2].out.kind = "error"
    /\ inv[2].resp.status = 404

\* C7: an invocation in flight does not stay in flight (a cancelled one in
\* particular), and one that ends without a response ends with an error.
C7_CancelAndTimeoutEnd ==
    /\ \A i \in Slots : (inv[i].phase = "inflight") ~> (inv[i].phase # "inflight")
    /\ \A i \in Slots :
          (inv[i].phase = "inflight" /\ inv[i].cancelled) ~> (inv[i].phase # "inflight")
    /\ [][\A i \in Slots :
             (Returns(i) /\ inv'[i].resp.status = 0) => inv'[i].out.kind = "error"]_vars

\* C7 witness: a cancelled request was given up and the handler returned the
\* cancellation error.
C7_Witness ==
    \E i \in Slots :
        /\ inv[i].phase = "done"
        /\ inv[i].resp = NoResponse
        /\ inv[i].out.kind = "error"
        /\ inv[i].out.errKind = "cancel"

\* C8: every request on the wire carries the Authorization value of the
\* configuration and Accept: application/json, and Content-Type: application/json
\* exactly when it has a body, which is for add_comment and create_issue.
C8_HeadersOfEveryRequest ==
    \A i \in Slots :
        inv[i].phase = "inflight" =>
            /\ inv[i].req.auth = BasicAuth(env.email, env.token)
            /\ inv[i].req.accept = "application/json"
            /\ (inv[i].req.contentType = "application/json") <=> inv[i].req.hasBody
            /\ inv[i].req.hasBody <=> inv[i].call.tool \in {"add_comment", "create_issue"}

C10_ErrorsIndependentOfCredentials ==
    /\ pair.a.phase = pair.b.phase
    /\ pair.a.out = pair.b.out
    /\ pair.ca.Auth # <<>> => ~Contains(pair.a.out.errText, pair.ca.Auth)
    /\ pair.cb.Auth # <<>> => ~Contains(pair.b.out.errText, pair.cb.Auth)

\* C10 witness: both runs, with different Authorization values, failed on a 404.
C10_Witness ==
    /\ pair.ca.Auth # pair.cb.Auth
    /\ pair.a.phase = "done" /\ pair.b.phase = "done"
    /\ pair.a.resp.status = 404
    /\ pair.a.out.kind = "error" /\ pair.b.out.kind = "error"
    /\ pair.a.out.errText # <<>>

====
